---- MODULE Spec2Model ----
(***************************************************************************)
(* Model of src/data_preparation.py: the text normalizer (cleanup_text),   *)
(* the vocabulary builder (create_vocab), the review encoder               *)
(* (process_reviews) and the NLP part of the pipeline run (process_data).  *)
(*                                                                         *)
(* A Python str is modelled as a sequence of one-character strings, a      *)
(* Python list as a sequence.  Two specifications share the variables:     *)
(*   SpecFn  calls cleanup_text and process_reviews on bounded inputs;     *)
(*   Spec    runs lines 266-287 of process_data on bounded splits.         *)
(***************************************************************************)
EXTENDS Integers, Sequences, FiniteSets

VARIABLES
    pc,                   \* position of the caller / of process_data
    text,                 \* SpecFn: the str argument of the call
    max_len,              \* the max_len argument
    vocabulary,           \* the vocabulary object (or None)
    ret,                  \* SpecFn: outcome of the last call
    ret2,                 \* SpecFn: outcome of cleanup_text applied to ret
    training_data,        \* Spec: the "review" column of each split
    validation_data,
    test_data,
    corpus_data,          \* Spec: line 267
    corpus,               \* Spec: line 268
    corpus_cleaned,       \* Spec: line 275
    training_processed,   \* Spec: the "review_processed" column of each split
    validation_processed,
    test_processed,
    vocab_builds          \* Spec: number of completed create_vocab calls

vars == <<pc, text, max_len, vocabulary, ret, ret2, training_data,
          validation_data, test_data, corpus_data, corpus, corpus_cleaned,
          training_processed, validation_processed, test_processed,
          vocab_builds>>

-----------------------------------------------------------------------------
(* Bounds of the model.                                                    *)

\* longest enumerated input string of SpecFn
MaxStrLen == 4
\* largest max_len argument
MaxSeqLen == 3
\* largest number of reviews in the training split
MaxTrain == 2
\* largest number of reviews in the validation split and in the test split
MaxHeldOut == 1

-----------------------------------------------------------------------------
(* Characters.                                                             *)

UpperCase == <<"A","B","C","D","E","F","G","H","I","J","K","L","M",
               "N","O","P","Q","R","S","T","U","V","W","X","Y","Z">>

LowerCase == <<"a","b","c","d","e","f","g","h","i","j","k","l","m",
               "n","o","p","q","r","s","t","u","v","w","x","y","z">>

Range(s) == {s[i] : i \in DOMAIN s}

\* the punctuation marks the character class of line 62 keeps
KeptPunctuation == {".", "?", "!", ":", ")", "("}

\* the characters the class [^a-z.?!:)( \n] of line 62 does NOT match
KeptChars == Range(LowerCase) \cup KeptPunctuation \cup {" ", "\n"}

Whitespace == {" ", "\n"}

\* str.lower() on one character
LowerChar(c) ==
    IF \E i \in DOMAIN UpperCase : UpperCase[i] = c
    THEN LowerCase[CHOOSE i \in DOMAIN UpperCase : UpperCase[i] = c]
    ELSE c

\* text.lower(), line 61
Lower(s) == [i \in DOMAIN s |-> LowerChar(s[i])]

\* re.sub(r"[^a-z.?!:)( \n]+", "", text), line 62: every maximal run of
\* characters outside the class is replaced by the empty string
SubNotKept(s) == SelectSeq(s, LAMBDA c : c \in KeptChars)

\* DotRunEnd as a non-greedy match would give it: the match stops after
\* the second "."
DotRunEndLazy(s, i) ==
    IF i < Len(s) /\ s[i + 1] = "." THEN i + 1 ELSE i

\* end index of the run of "." that starts at index i of s
RECURSIVE DotRunEnd(_, _)
DotRunEnd(s, i) ==
    IF i < Len(s) /\ s[i + 1] = "." THEN DotRunEnd(s, i + 1) ELSE i

\* re.sub(r"\.{2,}", repl, text) scanning from index i: the leftmost,
\* greedy match of two or more "." is replaced by repl, and the scan
\* resumes after the match
RECURSIVE SubDotRunsFrom(_, _, _)
SubDotRunsFrom(s, repl, i) ==
    IF i > Len(s) THEN <<>>
    ELSE IF s[i] = "." /\ DotRunEnd(s, i) > i
         THEN repl \o SubDotRunsFrom(s, repl, DotRunEnd(s, i) + 1)
         ELSE <<s[i]>> \o SubDotRunsFrom(s, repl, i + 1)

SubDotRuns(s, repl) == SubDotRunsFrom(s, repl, 1)

\* end index of the run of the character s[i] that starts at index i
RECURSIVE RunEnd(_, _)
RunEnd(s, i) ==
    IF i < Len(s) /\ s[i + 1] = s[i] THEN RunEnd(s, i + 1) ELSE i

\* every run of two or more of one kept punctuation mark becomes one mark
RECURSIVE SubPunctuationRunsFrom(_, _)
SubPunctuationRunsFrom(s, i) ==
    IF i > Len(s) THEN <<>>
    ELSE IF s[i] \in KeptPunctuation
         THEN <<s[i]>> \o SubPunctuationRunsFrom(s, RunEnd(s, i) + 1)
         ELSE <<s[i]>> \o SubPunctuationRunsFrom(s, i + 1)

\* cleanup_text as its docstring describes it: runs of every kept
\* punctuation mark are collapsed
cleanup_text_all_marks(t) == SubPunctuationRunsFrom(SubNotKept(Lower(t)), 1)

\* cleanup_text with lines 62 and 63 exchanged: the runs of "." are
\* collapsed before the other characters are removed
cleanup_text_collapse_first(t) ==
    SubNotKept(SubDotRuns(Lower(t), <<".">>))

\* cleanup_text, lines 61-69
cleanup_text(t) ==
    LET t1 == Lower(t)
        t2 == SubNotKept(t1)
        t3 == SubDotRuns(t2, <<".">>)
        t4 == SubDotRuns(t3, <<"!">>)
        t5 == SubDotRuns(t4, <<"?">>)
        t6 == SubDotRuns(t5, <<")">>)
        t7 == SubDotRuns(t6, <<"(">>)
        t8 == SubDotRuns(t7, <<":">>)
    IN  t8

-----------------------------------------------------------------------------
(* The injected collaborators: nltk's word_tokenize and WordNetLemmatizer  *)
(* (imported on lines 9 and 15).  They are library code; the model keeps   *)
(* what the callers rely on: tokens come out in text order, whitespace     *)
(* separates tokens, a punctuation mark is a token of its own, and the     *)
(* lemmatizer maps each token independently (and not as the identity:      *)
(* WordNet reduces "as" to "a").                                           *)

\* flush the token collected so far
Flush(cur) == IF cur = <<>> THEN <<>> ELSE <<cur>>

RECURSIVE TokenizeFrom(_, _, _)
TokenizeFrom(s, i, cur) ==
    IF i > Len(s) THEN Flush(cur)
    ELSE IF s[i] \in Whitespace
         THEN Flush(cur) \o TokenizeFrom(s, i + 1, <<>>)
         ELSE IF s[i] \in KeptPunctuation
              THEN Flush(cur) \o <<(<<s[i]>>)>> \o TokenizeFrom(s, i + 1, <<>>)
              ELSE TokenizeFrom(s, i + 1, Append(cur, s[i]))

\* tokenizer(text), lines 97 and 137
word_tokenize(s) == TokenizeFrom(s, 1, <<>>)

\* the nouns of the lexicon the lemmatizer consults
WordNetNouns == { <<"a">>, <<"i","t">>, <<"f","i","t">>,
                  <<"d","r","e","s","s">> }

\* lemmatizer.lemmatize(word), lines 99 and 138: a plural "s" is detached
\* when what remains is a noun of the lexicon
lemmatize(word) ==
    IF /\ Len(word) > 1
       /\ word[Len(word)] = "s"
       /\ SubSeq(word, 1, Len(word) - 1) \in WordNetNouns
    THEN SubSeq(word, 1, Len(word) - 1)
    ELSE word

\* [lemmatizer.lemmatize(word) for word in ...], lines 99 and 138
LemmatizeAll(tokens) == [i \in DOMAIN tokens |-> lemmatize(tokens[i])]

-----------------------------------------------------------------------------
(* The vocabulary: collections.Counter and torchtext.vocab.vocab.          *)

pad_token == <<"<","p","a","d",">">>

unk_token == <<"<","u","n","k",">">>

\* the min_freq keyword of line 103
MIN_FREQ == 10

\* the argument of set_default_index, line 105
DEFAULT_INDEX == 1

\* the value the encoder pads with, line 141
PAD_ID == 0

\* number of occurrences of w in the list
Count(list, w) == Cardinality({i \in DOMAIN list : list[i] = w})

\* the keys of Counter(list): the distinct elements in first-seen order
FirstSeen(list) ==
    SelectSeq([i \in DOMAIN list |->
                  IF \E j \in 1..(i - 1) : list[j] = list[i]
                  THEN <<>> ELSE <<list[i]>>],
              LAMBDA x : x # <<>>)

CounterKeys(list) ==
    LET first == FirstSeen(list) IN [i \in DOMAIN first |-> first[i][1]]

\* vocab with the threshold test written as freq > min_freq
vocab_strict(list, min_freq, specials) ==
    LET keys   == SelectSeq(CounterKeys(list), LAMBDA w : w \notin Range(specials))
        tokens == SelectSeq(keys, LAMBDA w : Count(list, w) > min_freq)
    IN  [isNone |-> FALSE, itos |-> specials \o tokens, default_index |-> -1]

\* vocab(token_freqs, min_freq, specials) of torchtext: the specials are
\* removed from the counter, the keys with freq >= min_freq are kept in
\* counter order, and the specials are put in front
vocab(list, min_freq, specials) ==
    LET keys   == SelectSeq(CounterKeys(list), LAMBDA w : w \notin Range(specials))
        tokens == SelectSeq(keys, LAMBDA w : Count(list, w) >= min_freq)
    IN  [isNone |-> FALSE, itos |-> specials \o tokens, default_index |-> -1]

\* Python's None in the place of a vocabulary object
NoneVocabulary == [isNone |-> TRUE, itos |-> <<>>, default_index |-> -1]

\* create_vocab with the specials handed to vocab in the order unk, pad
create_vocab_unk_first(t, unk, pad) ==
    [vocab(LemmatizeAll(word_tokenize(t)), MIN_FREQ, <<unk, pad>>)
        EXCEPT !.default_index = DEFAULT_INDEX]

\* create_vocab, lines 97-106
create_vocab(t, unk, pad) ==
    LET tokenized_text  == word_tokenize(t)
        lemmatized_text == LemmatizeAll(tokenized_text)
        v               == vocab(lemmatized_text, MIN_FREQ, <<pad, unk>>)
    IN  [v EXCEPT !.default_index = DEFAULT_INDEX]

\* vocabulary[token]: the index of the token, the default index when absent
LookupToken(v, w) ==
    IF \E i \in DOMAIN v.itos : v.itos[i] = w
    THEN (CHOOSE i \in DOMAIN v.itos : v.itos[i] = w) - 1
    ELSE v.default_index

\* vocabulary(tokens), line 139
LookupAll(v, tokens) == [i \in DOMAIN tokens |-> LookupToken(v, tokens[i])]

\* [0] * n
Zeros(n) == [i \in 1..n |-> PAD_ID]

\* list[:n + 1]
SliceToInclusive(list, n) ==
    SubSeq(list, 1, IF n + 1 < Len(list) THEN n + 1 ELSE Len(list))

\* list[:n] for n >= 0
SliceTo(list, n) == SubSeq(list, 1, IF n < Len(list) THEN n ELSE Len(list))

\* the outcome of a call: a returned value, or the exception it raised
Return(v) == [raised |-> "", value |-> v]

Raise(e) == [raised |-> e, value |-> <<>>]

\* process_reviews with the padding put in front of the ids
process_reviews_left_pad(review, v, maxlen) ==
    LET review_processed ==
            LookupAll(v, LemmatizeAll(word_tokenize(cleanup_text(review))))
    IN  IF v.isNone THEN Raise("TypeError")
        ELSE IF Len(review_processed) < maxlen
             THEN Return(Zeros(maxlen - Len(review_processed)) \o review_processed)
             ELSE IF Len(review_processed) > maxlen
                  THEN Return(SliceTo(review_processed, maxlen))
                  ELSE Return(review_processed)

\* process_reviews that takes a missing vocabulary for an empty one: every
\* token is looked up to the same index and the result is padded as usual
process_reviews_none_as_empty(review, v, maxlen) ==
    LET review_processed ==
            LookupAll(v, LemmatizeAll(word_tokenize(cleanup_text(review))))
    IN  IF Len(review_processed) < maxlen
        THEN Return(review_processed \o Zeros(maxlen - Len(review_processed)))
        ELSE IF Len(review_processed) > maxlen
             THEN Return(SliceTo(review_processed, maxlen))
             ELSE Return(review_processed)

\* process_reviews, lines 136-144.  Calling None on line 139 raises
\* TypeError ('NoneType' object is not callable).
process_reviews(review, v, maxlen) ==
    LET review_cleaned   == cleanup_text(review)
        review_tokenized == word_tokenize(review_cleaned)
        lemmatized_text  == LemmatizeAll(review_tokenized)
        review_processed == LookupAll(v, lemmatized_text)
    IN  IF v.isNone THEN Raise("TypeError")
        ELSE IF Len(review_processed) < maxlen
             THEN Return(review_processed \o Zeros(maxlen - Len(review_processed)))
             ELSE IF Len(review_processed) > maxlen
                  THEN Return(SliceTo(review_processed, maxlen))
                  ELSE Return(review_processed)

-----------------------------------------------------------------------------
(* Inputs.                                                                 *)

\* "Great dress!!! Loved it"
GreatDressLovedIt ==
    <<"G","r","e","a","t"," ","d","r","e","s","s","!","!","!"," ",
      "L","o","v","e","d"," ","i","t">>

\* "great dress great fit"
GreatDressGreatFit ==
    <<"g","r","e","a","t"," ","d","r","e","s","s"," ",
      "g","r","e","a","t"," ","f","i","t">>

\* "a a a a a.": five occurrences of the lemma a and a full stop
FiveA == <<"a"," ","a"," ","a"," ","a"," ","a",".">>

\* "As as as as": four more occurrences of the lemma a
FourAs == <<"A","s"," ","a","s"," ","a","s"," ","a","s">>

\* "10/10": a review no character of which survives cleanup_text
TenOfTen == <<"1","0","/","1","0">>

\* the characters of the enumerated strings: letters, an upper-case letter,
\* a digit (removed by line 62), two kept punctuation marks and a space
FnAlphabet == {"a", "s", "S", "1", ".", "!", " "}

StringsUpTo(n) == UNION {[1..k -> FnAlphabet] : k \in 0..n}

\* a vocabulary object as create_vocab returns it, holding the given lemmas
VocabOf(lemmas) ==
    [isNone |-> FALSE, itos |-> <<pad_token, unk_token>> \o lemmas,
     default_index |-> DEFAULT_INDEX]

SmallVocab == VocabOf(<< <<"a">>, <<"!">> >>)

\* the vocabulary admitting exactly great, dress and fit
GreatDressFitVocab ==
    VocabOf(<< <<"g","r","e","a","t">>, <<"d","r","e","s","s">>,
               <<"f","i","t">> >>)

\* the argument triples (text, max_len, vocabulary) of SpecFn
FnInputs ==
    (StringsUpTo(MaxStrLen) \X (0..MaxSeqLen) \X {NoneVocabulary, SmallVocab})
    \cup {<<GreatDressLovedIt, 5, GreatDressFitVocab>>,
          <<FourAs, MaxSeqLen, SmallVocab>>}

\* the review texts the splits of Spec are drawn from
ReviewPool == {FiveA, FourAs, GreatDressGreatFit, TenOfTen}

\* the non-empty columns of at most n reviews (train_test_split refuses to
\* produce an empty split)
Columns(n) == UNION {[1..k -> ReviewPool] : k \in 1..n}

-----------------------------------------------------------------------------
(* SpecFn: one call of cleanup_text (and a second one on its result) or    *)
(* of process_reviews.                                                     *)

InitFn ==
    /\ pc = "start"
    /\ \E in \in FnInputs :
          /\ text = in[1]
          /\ max_len = in[2]
          /\ vocabulary = in[3]
    /\ ret = Return(<<>>)
    /\ ret2 = <<>>
    /\ training_data = <<>>
    /\ validation_data = <<>>
    /\ test_data = <<>>
    /\ corpus_data = <<>>
    /\ corpus = <<>>
    /\ corpus_cleaned = <<>>
    /\ training_processed = <<>>
    /\ validation_processed = <<>>
    /\ test_processed = <<>>
    /\ vocab_builds = 0

CallCleanupText ==
    /\ pc = "start"
    /\ ret' = Return(cleanup_text(text))
    /\ pc' = "cleanup_text"
    /\ UNCHANGED <<text, max_len, vocabulary, ret2, training_data,
                   validation_data, test_data, corpus_data, corpus,
                   corpus_cleaned, training_processed, validation_processed,
                   test_processed, vocab_builds>>

CallCleanupTextAgain ==
    /\ pc = "cleanup_text"
    /\ ret2' = cleanup_text(ret.value)
    /\ pc' = "cleanup_text_twice"
    /\ UNCHANGED <<text, max_len, vocabulary, ret, training_data,
                   validation_data, test_data, corpus_data, corpus,
                   corpus_cleaned, training_processed, validation_processed,
                   test_processed, vocab_builds>>

CallProcessReviews ==
    /\ pc = "start"
    /\ ret' = process_reviews(text, vocabulary, max_len)
    /\ pc' = "process_reviews"
    /\ UNCHANGED <<text, max_len, vocabulary, ret2, training_data,
                   validation_data, test_data, corpus_data, corpus,
                   corpus_cleaned, training_processed, validation_processed,
                   test_processed, vocab_builds>>

NextFn == CallCleanupText \/ CallCleanupTextAgain \/ CallProcessReviews

SpecFn == InitFn /\ [][NextFn]_vars

-----------------------------------------------------------------------------
(* Spec: process_data from line 266 on.  The splits are inputs: the        *)
(* sampling and splitting of lines 217-261 are left to the environment.    *)

\* '\n'.join(list)
RECURSIVE Join(_)
Join(list) ==
    IF list = <<>> THEN <<>>
    ELSE IF Len(list) = 1 THEN list[1]
         ELSE list[1] \o <<"\n">> \o Join(Tail(list))

\* column.apply(lambda x: process_reviews(x, ..., vocabulary, max_len))
Apply(column, v, maxlen) ==
    [i \in DOMAIN column |-> process_reviews(column[i], v, maxlen)]

Raised(outcomes) == \E i \in DOMAIN outcomes : outcomes[i].raised # ""

Values(outcomes) == [i \in DOMAIN outcomes |-> outcomes[i].value]

Init ==
    /\ pc = "corpus"
    /\ text = <<>>
    /\ max_len \in {MaxSeqLen, MaxSeqLen + 2}
    /\ vocabulary = NoneVocabulary
    /\ ret = Return(<<>>)
    /\ ret2 = <<>>
    /\ training_data \in Columns(MaxTrain)
    /\ validation_data \in Columns(MaxHeldOut)
    /\ test_data \in Columns(MaxHeldOut)
    /\ corpus_data = <<>>
    /\ corpus = <<>>
    /\ corpus_cleaned = <<>>
    /\ training_processed = <<>>
    /\ validation_processed = <<>>
    /\ test_processed = <<>>
    /\ vocab_builds = 0

\* lines 267-268
BuildCorpus ==
    /\ pc = "corpus"
    /\ corpus_data' = training_data \o validation_data
    /\ corpus' = Join(training_data)
    /\ pc' = "clean"
    /\ UNCHANGED <<text, max_len, vocabulary, ret, ret2, training_data,
                   validation_data, test_data, corpus_cleaned,
                   training_processed, validation_processed, test_processed,
                   vocab_builds>>

\* line 275
CleanCorpus ==
    /\ pc = "clean"
    /\ corpus_cleaned' = cleanup_text(corpus)
    /\ pc' = "vocab"
    /\ UNCHANGED <<text, max_len, vocabulary, ret, ret2, training_data,
                   validation_data, test_data, corpus_data, corpus,
                   training_processed, validation_processed, test_processed,
                   vocab_builds>>

\* line 277
CreateVocab ==
    /\ pc = "vocab"
    /\ vocabulary' = create_vocab(corpus_cleaned, unk_token, pad_token)
    /\ vocab_builds' = vocab_builds + 1
    /\ pc' = "save"
    /\ UNCHANGED <<text, max_len, ret, ret2, training_data, validation_data,
                   test_data, corpus_data, corpus, corpus_cleaned,
                   training_processed, validation_processed, test_processed>>

\* line 279, torch.save returns
SaveVocabulary ==
    /\ pc = "save"
    /\ pc' = "training"
    /\ UNCHANGED <<text, max_len, vocabulary, ret, ret2, training_data,
                   validation_data, test_data, corpus_data, corpus,
                   corpus_cleaned, training_processed, validation_processed,
                   test_processed, vocab_builds>>

\* line 279, torch.save raises (the directory ./models is never created by
\* process_data) and the run ends
SaveVocabularyFails ==
    /\ pc = "save"
    /\ pc' = "error"
    /\ UNCHANGED <<text, max_len, vocabulary, ret, ret2, training_data,
                   validation_data, test_data, corpus_data, corpus,
                   corpus_cleaned, training_processed, validation_processed,
                   test_processed, vocab_builds>>

\* lines 282-283
ProcessTraining ==
    /\ pc = "training"
    /\ LET outcomes == Apply(training_data, vocabulary, max_len)
       IN  IF Raised(outcomes)
           THEN pc' = "error" /\ UNCHANGED training_processed
           ELSE pc' = "validation" /\ training_processed' = Values(outcomes)
    /\ UNCHANGED <<text, max_len, vocabulary, ret, ret2, training_data,
                   validation_data, test_data, corpus_data, corpus,
                   corpus_cleaned, validation_processed, test_processed,
                   vocab_builds>>

\* lines 284-285 with a vocabulary of its own built for the split
ProcessValidationRebuild ==
    /\ pc = "validation"
    /\ vocabulary' = create_vocab(cleanup_text(Join(validation_data)),
                                  unk_token, pad_token)
    /\ vocab_builds' = vocab_builds + 1
    /\ validation_processed' =
           Values(Apply(validation_data, vocabulary', max_len))
    /\ pc' = "test"
    /\ UNCHANGED <<text, max_len, ret, ret2, training_data,
                   validation_data, test_data, corpus_data, corpus,
                   corpus_cleaned, training_processed, test_processed>>

\* lines 284-285
ProcessValidation ==
    /\ pc = "validation"
    /\ LET outcomes == Apply(validation_data, vocabulary, max_len)
       IN  IF Raised(outcomes)
           THEN pc' = "error" /\ UNCHANGED validation_processed
           ELSE pc' = "test" /\ validation_processed' = Values(outcomes)
    /\ UNCHANGED <<text, max_len, vocabulary, ret, ret2, training_data,
                   validation_data, test_data, corpus_data, corpus,
                   corpus_cleaned, training_processed, test_processed,
                   vocab_builds>>

\* lines 286-287
ProcessTest ==
    /\ pc = "test"
    /\ LET outcomes == Apply(test_data, vocabulary, max_len)
       IN  IF Raised(outcomes)
           THEN pc' = "error" /\ UNCHANGED test_processed
           ELSE pc' = "done" /\ test_processed' = Values(outcomes)
    /\ UNCHANGED <<text, max_len, vocabulary, ret, ret2, training_data,
                   validation_data, test_data, corpus_data, corpus,
                   corpus_cleaned, training_processed, validation_processed,
                   vocab_builds>>

Next ==
    \/ BuildCorpus
    \/ CleanCorpus
    \/ CreateVocab
    \/ SaveVocabulary
    \/ SaveVocabularyFails
    \/ ProcessTraining
    \/ ProcessValidation
    \/ ProcessTest

Spec == Init /\ [][Next]_vars

-----------------------------------------------------------------------------
(* Properties.                                                             *)

\* the ids of the review's lemmas in token order, before length
\* reconciliation
IdsOf(review, v) ==
    LookupAll(v, LemmatizeAll(word_tokenize(cleanup_text(review))))

Returned == pc = "process_reviews" /\ ret.raised = ""

\* C1: whenever process_reviews returns, the returned sequence has length
\* exactly max_len, whatever the review (empty, one token, more tokens
\* than max_len).
C1_LengthIsMaxLen == Returned => Len(ret.value) = max_len

\* a review with more tokens than max_len has been encoded
C1_Witness ==
    /\ Returned
    /\ max_len > 0
    /\ Len(IdsOf(text, vocabulary)) > max_len

\* C5: with n ids and L = max_len, the result is the ids followed by L - n
\* pad ids when n < L, the first L ids when n > L, the ids when n = L.
C5_PadOrTruncate ==
    Returned =>
        LET ids == IdsOf(text, vocabulary)
            n   == Len(ids)
        IN  /\ DOMAIN ret.value = 1..max_len
            /\ \A i \in 1..max_len :
                  ret.value[i] = IF i <= n THEN ids[i] ELSE PAD_ID

\* a review with at least one and fewer than max_len tokens, one of them in
\* the vocabulary, has been encoded
C5_Witness ==
    /\ Returned
    /\ Len(IdsOf(text, vocabulary)) \in 1..(max_len - 1)
    /\ \E i \in DOMAIN IdsOf(text, vocabulary) : IdsOf(text, vocabulary)[i] > 1

\* the text with every "." that follows a "." dropped
RECURSIVE DropRepeatedDots(_)
DropRepeatedDots(s) ==
    IF Len(s) < 2 THEN s
    ELSE LET front == DropRepeatedDots(SubSeq(s, 1, Len(s) - 1))
         IN  IF s[Len(s)] = "." /\ s[Len(s) - 1] = "."
             THEN front ELSE Append(front, s[Len(s)])

HasPair(s, c) == \E i \in 1..(Len(s) - 1) : s[i] = c /\ s[i + 1] = c

GreatDressDotLovedIt ==
    <<"g","r","e","a","t"," ","d","r","e","s","s","."," ",
      "l","o","v","e","d"," ","i","t">>

\* "great dress!!! loved it"
GreatDressBangsLovedIt ==
    <<"g","r","e","a","t"," ","d","r","e","s","s","!","!","!"," ",
      "l","o","v","e","d"," ","i","t">>

C8_Idempotent ==
    /\ pc = "cleanup_text_twice" => ret2 = ret.value
    /\ (pc = "cleanup_text" /\ text = <<>>) => ret.value = <<>>

\* a text the first cleaning changed in all three ways (a letter
\* lower-cased, a character removed, a run of "." collapsed) has been
\* cleaned twice
C8_Witness ==
    /\ pc = "cleanup_text_twice"
    /\ Lower(text) # text
    /\ Len(SubNotKept(text)) < Len(text)
    /\ Len(ret.value) < Len(SubNotKept(text))

\* C10: process_reviews called with None for the vocabulary raises and
\* returns no sequence.
C10_NoVocabularyRaises ==
    (pc = "process_reviews" /\ vocabulary.isNone)
        => ret.raised # "" /\ ret.value = <<>>

\* process_reviews has been called with None, a review with tokens and a
\* positive max_len
C10_Witness ==
    /\ pc = "process_reviews"
    /\ vocabulary.isNone
    /\ max_len > 0
    /\ word_tokenize(cleanup_text(text)) # <<>>
    /\ ret.raised = "TypeError"

\* the vocabulary has been built
Built == vocab_builds > 0

\* the lemmatized corpus the vocabulary was built from
CorpusLemmas == LemmatizeAll(word_tokenize(corpus_cleaned))

\* the lemmas with an id of their own
Admitted(v) == {v.itos[i] : i \in 3..Len(v.itos)}

\* lemmas that occur in no corpus of the model
AbsentLemmas == { <<"z">>, <<"l","o","v","e","d">> }

\* C2 as stated, on its example: the corpus "great dress great fit" admits
\* exactly great, dress and fit besides the two special symbols.
C2_AsStated ==
    (Built /\ corpus_cleaned = GreatDressGreatFit)
        => Admitted(vocabulary) =
              { <<"g","r","e","a","t">>, <<"d","r","e","s","s">>,
                <<"f","i","t">> }

\* C2 amended: the threshold is the fixed value 10.  A lemma is admitted
\* if and only if its count in the lemmatized corpus is at least 10; a
\* lemma with a lower count is absent and looks up to the unk id 1; the
\* corpus "great dress great fit" admits no lemma.
C2_ThresholdIsTen ==
    Built =>
        LET lemmas == CorpusLemmas
        IN  /\ \A w \in Range(lemmas) \cup AbsentLemmas :
                  /\ w \in Admitted(vocabulary) <=> Count(lemmas, w) >= 10
                  /\ Count(lemmas, w) < 10 =>
                        /\ w \notin Range(vocabulary.itos)
                        /\ LookupToken(vocabulary, w) = 1
            /\ \A w \in Admitted(vocabulary) : Count(lemmas, w) >= 10
            /\ corpus_cleaned = GreatDressGreatFit
                  => Admitted(vocabulary) = {}

\* a vocabulary has been built from a corpus with a lemma of count exactly
\* 10 and a lemma of count between 1 and 9
C2_Witness ==
    /\ Built
    /\ LET lemmas == CorpusLemmas
       IN  /\ \E w \in Range(lemmas) :
                  Count(lemmas, w) = 10 /\ w \in Admitted(vocabulary)
           /\ \E w \in Range(lemmas) :
                  Count(lemmas, w) < 10 /\ w \notin Admitted(vocabulary)

\* C3: the corpus the vocabulary is induced from is the reviews of the
\* training split followed by those of the validation split.
C3_CorpusIsTrainingAndValidation ==
    pc # "corpus" => corpus = Join(training_data \o validation_data)

\* C4: pad has id 0 and unk has id 1, every other entry is a lemma of the
\* corpus and not a special symbol, and a corpus in which no lemma reaches
\* the threshold gives exactly the two special entries.
C4_SpecialIds ==
    Built =>
        LET lemmas == CorpusLemmas
        IN  /\ ~vocabulary.isNone
            /\ LookupToken(vocabulary, pad_token) = 0
            /\ LookupToken(vocabulary, unk_token) = 1
            /\ Len(vocabulary.itos) >= 2
            /\ vocabulary.itos[1] = pad_token
            /\ vocabulary.itos[2] = unk_token
            /\ Admitted(vocabulary) \subseteq
                  Range(lemmas) \ {pad_token, unk_token}
            /\ (\A w \in Range(lemmas) : Count(lemmas, w) < MIN_FREQ)
                  => vocabulary.itos = <<pad_token, unk_token>>

\* a vocabulary has been built from the empty corpus
C4_Witness ==
    /\ Built
    /\ corpus_cleaned = <<>>
    /\ vocabulary.itos = <<pad_token, unk_token>>

Encoding == pc \in {"training", "validation", "test", "done"}

C9_State ==
    /\ vocab_builds <= 1
    /\ Encoding => vocab_builds = 1 /\ ~vocabulary.isNone
    /\ (\/ training_processed # <<>>
        \/ validation_processed # <<>>
        \/ test_processed # <<>>) => vocab_builds = 1
    /\ pc = "done" =>
          /\ training_processed =
                Values(Apply(training_data, vocabulary, max_len))
          /\ validation_processed =
                Values(Apply(validation_data, vocabulary, max_len))
          /\ test_processed =
                Values(Apply(test_data, vocabulary, max_len))

C9_Step ==
    Built => vocabulary' = vocabulary /\ vocab_builds' = vocab_builds

\* C9: create_vocab completes exactly once, before any review of any split
\* is encoded; once built the vocabulary is never rebuilt or changed, and
\* at the end every review of the three splits is encoded against it.
C9_BuiltOnceThenReadOnly == []C9_State /\ [][C9_Step]_vars

\* the run has ended with the three splits encoded against a vocabulary
\* that admits a lemma
C9_Witness ==
    /\ pc = "done"
    /\ vocab_builds = 1
    /\ Len(vocabulary.itos) > 2
    /\ Len(training_processed) = Len(training_data)
    /\ Len(validation_processed) = Len(validation_data)
    /\ Len(test_processed) = Len(test_data)

====
